---------------------------- MODULE Spec2Model ----------------------------
(***************************************************************************)
(* Model of the replay parser (src/replay_parser.py).                      *)
(*                                                                         *)
(* Strings are sequences of lexemes.  Every delimiter, prefix and suffix   *)
(* the code tests for ("|", ":", ",", "]", white space, "p1", "p2",        *)
(* "-Tera", digits, ...) is a lexeme of its own, so that split, strip,     *)
(* startswith and endswith act on lexeme sequences exactly as the Python   *)
(* string methods act on characters.  An optional value (T | None) is a    *)
(* sequence of length 0 (None) or 1.                                       *)
(***************************************************************************)
EXTENDS Integers, Sequences, FiniteSets, TLC

(* ------------------------------ bounds --------------------------------- *)
MaxLines == 4
MaxEndToEnd == 5

(* --------------------------- optional values --------------------------- *)
None == <<>>
Some(x) == <<x>>

(* ------------------------- Python string methods ----------------------- *)
WS == {" ", "\t"}

RECURSIVE LStrip(_)
LStrip(s) == IF s # <<>> /\ Head(s) \in WS THEN LStrip(Tail(s)) ELSE s

RECURSIVE RStrip(_)
RStrip(s) ==
    IF s # <<>> /\ s[Len(s)] \in WS THEN RStrip(SubSeq(s, 1, Len(s) - 1)) ELSE s

Strip(s) == RStrip(LStrip(s))

RECURSIVE LStripChar(_, _)
LStripChar(s, c) == IF s # <<>> /\ Head(s) = c THEN LStripChar(Tail(s), c) ELSE s

Contains(s, d) == \E i \in 1..Len(s) : s[i] = d

RECURSIVE FirstIndex(_, _, _)
FirstIndex(s, d, i) == IF s[i] = d THEN i ELSE FirstIndex(s, d, i + 1)

RECURSIVE Split(_, _)
Split(s, d) ==
    IF Contains(s, d)
    THEN LET i == FirstIndex(s, d, 1)
         IN  <<SubSeq(s, 1, i - 1)>> \o Split(SubSeq(s, i + 1, Len(s)), d)
    ELSE <<s>>

Split1(s, d) ==
    IF Contains(s, d)
    THEN LET i == FirstIndex(s, d, 1)
         IN  <<SubSeq(s, 1, i - 1), SubSeq(s, i + 1, Len(s))>>
    ELSE <<s>>

RECURSIVE Join(_, _)
Join(parts, d) ==
    IF parts = <<>> THEN <<>>
    ELSE IF Len(parts) = 1 THEN parts[1]
    ELSE parts[1] \o <<d>> \o Join(Tail(parts), d)

StartsWith(s, t) == Len(s) >= 1 /\ s[1] = t

EndsWith(s, t) == Len(s) >= 1 /\ s[Len(s)] = t

InList(x, list) == \E i \in 1..Len(list) : list[i] = x

(* ------------------------------ helpers -------------------------------- *)
P1 == <<"p1">>
P2 == <<"p2">>

extract_player(slot) ==
    LET side == Strip(Split1(slot, ":")[1])
    IN  IF StartsWith(side, "p1") THEN P1
        ELSE IF StartsWith(side, "p2") THEN P2
        ELSE side

extract_species_from_details(details) == Strip(Split1(details, ",")[1])

normalize_species(species) ==
    IF EndsWith(species, "-Tera")
    THEN SubSeq(species, 1, Len(species) - 1)
    ELSE species

extract_nickname(slot) ==
    IF ~Contains(slot, ":") THEN None
    ELSE Some(Strip(Split1(slot, ":")[2]))

(* ------------------------- Team Roster Decoder ------------------------- *)
OrNone(s) == IF s = <<>> THEN None ELSE Some(s)

RECURSIVE NonEmptyStripped(_)
NonEmptyStripped(ms) ==
    IF ms = <<>> THEN <<>>
    ELSE IF Strip(Head(ms)) # <<>>
         THEN <<Strip(Head(ms))>> \o NonEmptyStripped(Tail(ms))
         ELSE NonEmptyStripped(Tail(ms))

TeamPokemon(fields) ==
    [name      |-> Strip(fields[1]),
     item      |-> OrNone(Strip(fields[3])),
     ability   |-> OrNone(Strip(fields[4])),
     moves     |-> NonEmptyStripped(Split(Strip(fields[5]), ",")),
     tera_type |-> OrNone(LStripChar(Strip(fields[Len(fields)]), ","))]

RECURSIVE ParseMembers(_)
ParseMembers(chunks) ==
    IF chunks = <<>> THEN <<>>
    ELSE LET member_raw == Strip(Head(chunks))
             fields == Split(member_raw, "|")
         IN  IF member_raw = <<>> THEN ParseMembers(Tail(chunks))
             ELSE IF Len(fields) < 6 THEN ParseMembers(Tail(chunks))
             ELSE <<TeamPokemon(fields)>> \o ParseMembers(Tail(chunks))

parse_showteam_Terminated(raw) ==
    LET chunks == Split(raw, "]")
    IN  ParseMembers(SubSeq(chunks, 1, Len(chunks) - 1))

parse_showteam(raw) == ParseMembers(Split(raw, "]"))


(* ---------------- regular expressions of the uhtml handler ------------- *)
Digits == {"0", "1", "2", "3", "4", "5", "6", "7", "8", "9"}

DigitVal(d) ==
    CASE d = "0" -> 0 [] d = "1" -> 1 [] d = "2" -> 2 [] d = "3" -> 3
      [] d = "4" -> 4 [] d = "5" -> 5 [] d = "6" -> 6 [] d = "7" -> 7
      [] d = "8" -> 8 [] d = "9" -> 9

RECURSIVE ToInt(_)
ToInt(ds) ==
    IF ds = <<>> THEN 0
    ELSE 10 * ToInt(SubSeq(ds, 1, Len(ds) - 1)) + DigitVal(ds[Len(ds)])

RECURSIVE RunLen(_, _, _)
RunLen(h, i, S) ==
    IF i <= Len(h) /\ h[i] \in S THEN 1 + RunLen(h, i + 1, S) ELSE 0

Min(S) == CHOOSE x \in S : \A y \in S : x <= y
Max(S) == CHOOSE x \in S : \A y \in S : x >= y

\* re.search(r"Game\s+(\d+)", html): group 1 of the leftmost match, or None
GameMatchAt(h, i) ==
    /\ h[i] = "Game"
    /\ RunLen(h, i + 1, WS) >= 1
    /\ RunLen(h, i + 1 + RunLen(h, i + 1, WS), Digits) >= 1

game_match(h) ==
    LET starts == {i \in 1..Len(h) : GameMatchAt(h, i)}
    IN  IF starts = {} THEN None
        ELSE LET i == Min(starts)
                 d == i + 1 + RunLen(h, i + 1, WS)
             IN  Some(SubSeq(h, d, d + RunLen(h, d, Digits) - 1))

\* re.search(r'href="\\?/game-bestof3-([^"]*?-\d+)(?:-[^"/]+)?"', html)
IdGroupStart(h, i) ==
    IF i <= Len(h) /\ h[i] = "href=\""
    THEN LET j == IF i + 1 <= Len(h) /\ h[i + 1] = "\\" THEN i + 2 ELSE i + 1
         IN  IF j <= Len(h) /\ h[j] = "/game-bestof3-" THEN j + 1 ELSE 0
    ELSE 0

IdTailMatches(h, p) ==
    /\ p <= Len(h)
    /\ \/ h[p] = "\""
       \/ /\ h[p] = "-"
          /\ \E q \in (p + 1)..(Len(h) - 1) :
                /\ \A j \in (p + 1)..q : h[j] \notin {"\"", "/"}
                /\ h[q + 1] = "\""

IdCandidates(h, a) ==
    {km \in (a..Len(h)) \X (1..Len(h)) :
        /\ \A j \in a..(km[1] - 1) : h[j] # "\""
        /\ h[km[1]] = "-"
        /\ km[1] + km[2] <= Len(h)
        /\ \A j \in (km[1] + 1)..(km[1] + km[2]) : h[j] \in Digits
        /\ IdTailMatches(h, km[1] + km[2] + 1)}

id_match(h) ==
    LET starts == {i \in 1..Len(h) :
                      IdGroupStart(h, i) # 0 /\ IdCandidates(h, IdGroupStart(h, i)) # {}}
    IN  IF starts = {} THEN None
        ELSE LET a == IdGroupStart(h, Min(starts))
                 k == Min({km[1] : km \in IdCandidates(h, a)})
                 m == Max({km[2] : km \in {c \in IdCandidates(h, a) : c[1] = k}})
             IN  Some(SubSeq(h, a, k + m))

(* ------------------------- Event Line Decoder -------------------------- *)
Parts(line) == Split(Strip(line), "|")

Skipped(line) ==
    \/ Strip(line) = <<>>
    \/ ~StartsWith(Strip(line), "|")
    \/ Len(Parts(line)) < 2

Event(line) == Parts(line)[2]

Handles(line, tag, n) ==
    ~Skipped(line) /\ Event(line) = <<tag>> /\ Len(Parts(line)) >= n

IsPlayer_FourFields(line) == Handles(line, "player", 4)

IsPlayer(line) == Handles(line, "player", 5)
IsUhtml(line) == Handles(line, "uhtml", 4)
IsShowteam(line) == Handles(line, "showteam", 4)
IsSwitch(line) == Handles(line, "switch", 4)
IsDetailschange(line) == Handles(line, "detailschange", 4)
IsTerastallize(line) == Handles(line, "-terastallize", 3)
IsWin(line) == Handles(line, "win", 3)

NoHandler(line) ==
    ~(IsPlayer(line) \/ IsUhtml(line) \/ IsShowteam(line) \/ IsSwitch(line)
        \/ IsDetailschange(line) \/ IsTerastallize(line) \/ IsWin(line))

(* ----------------------- transcript lines fed in ----------------------- *)
FM == <<"Flutter Mane">>
INC == <<"Incineroar">>
RIL == <<"Rillaboom">>
Alice == <<"Alice">>
Bob == <<"Bob">>
Carol == <<"Carol">>
Flutty == <<"Flutty">>
Inci == <<"Inci">>

sw1A  == <<"|", "switch", "|", "p1", "a", ":", " ", "Flutty", "|",
           "Flutter Mane", ",", " ", "L50">>
sw1AT == <<"|", "switch", "|", "p1", "a", ":", " ", "Flutty", "|",
           "Flutter Mane", "-Tera", ",", " ", "L50">>
sw1B  == <<"|", "switch", "|", "p1", "b", ":", " ", "Inci", "|",
           "Incineroar", ",", " ", "L50", ",", " ", "M">>
sw1C  == <<"|", "switch", "|", "p1", "a", "|", "Rillaboom">>
sw2A  == <<"|", "switch", "|", "p2", "a", ":", " ", "Flutty", "|",
           "Flutter Mane", ",", " ", "L50">>
sw2B  == <<"|", "switch", "|", "p2", "b", ":", " ", "Flutty", "|", "Incineroar">>
sw2C  == <<" ", "|", "switch", "|", " ", "p2", "a", ":", " ", "Rilla", "|",
           " ", "Rillaboom", ",", " ", "L50", " ">>
sw3   == <<"|", "switch", "|", "p3", "a", ":", " ", "Flutty", "|", "Rillaboom">>
swShort == <<"|", "switch", "|", "p1", "a", ":", " ", "Flutty">>

dc1C  == <<"|", "detailschange", "|", "p1", "a", ":", " ", "Flutty", "|",
           "Rillaboom", ",", " ", "L50">>
dc1T  == <<"|", "detailschange", "|", "p1", "b", ":", " ", "Inci", "|",
           "Incineroar", "-Tera", ",", " ", "L50">>
dcShort == <<"|", "detailschange", "|", "p1", "a", ":", " ", "Flutty">>

te1   == <<"|", "-terastallize", "|", "p1", "a", ":", " ", "Flutty", "|", "Fairy">>
te2   == <<"|", "-terastallize", "|", "p2", "a", ":", " ", "Flutty", "|", "Fire">>
te1u  == <<"|", "-terastallize", "|", "p1", "b", ":", " ", "Inci">>
te1n  == <<"|", "-terastallize", "|", "p1", "a", "|", "Fire">>
te1e  == <<"|", "-terastallize", "|", "p1", "a", ":", " ", "|", "Fire">>
te3   == <<"|", "-terastallize", "|", "p3", "a", ":", " ", "Flutty", "|", "Fire">>
teShort == <<"|", "-terastallize">>

pl1A5 == <<"|", "player", "|", "p1", "|", "Alice", "|", "1", "|">>
pl1A4 == <<"|", "player", "|", "p1", "|", "Alice">>
pl2B5 == <<"|", "player", "|", "p2", "|", " ", "Bob", " ", "|", "2", "|", "1", "5", "0", "0">>
pl2B4 == <<"|", "player", "|", "p2", "|", "Bob">>
pl1B5 == <<"|", "player", "|", "p1", "|", "Bob", "|", "3", "|">>
pl1E5 == <<"|", "player", "|", "p1", "|", " ", "|", "|">>
pl3C5 == <<"|", "player", "|", "p3", "|", "Carol", "|", "1", "|">>
winA  == <<"|", "win", "|", "Alice">>
winB  == <<"|", "win", "|", "Bob">>
winC  == <<"|", "win", "|", "Carol">>
winShort == <<"|", "win">>

blank   == <<>>
spaces  == <<" ", "\t">>
chat    == <<"Alice", ":", " ", "gg", "|", "win", "|", "Alice">>
bare    == <<"|">>
turn1   == <<"|", "turn", "|", "1">>
uhGame  == <<"|", "uhtml", "|", "bestof", "|", "<h2>", "Game", " ", "2", "</h2>",
             "href=\"", "/game-bestof3-", "gen9vgc", "-", "7", "7", "-", "pw", "\"">>
uhId    == <<"|", "uhtml", "|", "bestof", "|", "href=\"", "\\", "/game-bestof3-",
             "gen9vgc", "-", "1", "2", "\"", "|", "Game", "3">>
uhOther == <<"|", "uhtml", "|", "medal", "|", "Game", " ", "1">>
uhShort == <<"|", "uhtml", "|", "bestof">>
st1     == <<"|", "showteam", "|", "p1", "|",
             "Flutter Mane", "|", "|", "Booster Energy", "|", "Protosynthesis", "|",
             "Moonblast", ",", "Protect", "|", ",", ",", "Fairy", "]",
             "Incineroar", "|", "|", "|", "Intimidate", "|", "Fake Out", ",", "|", ",">>
st2     == <<"|", "showteam", "|", "p2", "|",
             "Rillaboom", "|", "|", "Assault Vest", "]", " ", "]",
             "Incineroar", "|", "|", "|", "|", "|", "Ghost">>
stShort == <<"|", "showteam", "|", "p1">>

LeadLines  == {sw1A, sw1AT, sw1B, sw1C, sw2A, sw3, swShort, dc1C}
BenchLines == {sw1A, sw1B, sw1C, sw2A, sw2B, sw2C}
TeraLines  == {sw1A, sw2B, dc1C, te1, te2, te1u, te1n, teShort}
EdgeLines  == {sw1B, sw1C, dc1T, dcShort, te1u, te1e, te3}
WinLines   == {pl1A5, pl1A4, pl2B5, winA, winB, winC, sw1A, sw1B}
NameLines  == {pl1A5, pl1B5, pl1E5, pl2B5, pl3C5, winA, winB, winShort}
HtmlLines  == {uhGame, uhId, uhOther, uhShort, st1, st2, stShort, turn1}
SkipLines  == {blank, spaces, chat, bare, pl1A5, sw1A, te1, winA}

EndToEndLines == {pl1A5, pl1A4, pl2B5, pl2B4, sw1A, sw1B, winA}

\* the vocabularies a transcript is drawn from, and how long it may get
Corpora ==
    {[lines |-> c, max |-> MaxLines] :
        c \in {LeadLines, BenchLines, TeraLines, EdgeLines, WinLines, NameLines,
               HtmlLines, SkipLines}}
    \cup {[lines |-> EndToEndLines, max |-> MaxEndToEnd]}

Lines == UNION {c.lines : c \in Corpora}

\* the lines of one transcript come from one vocabulary
Feeds(lines, line) ==
    \E c \in Corpora :
        /\ Len(lines) < c.max
        /\ line \in c.lines
        /\ \A i \in 1..Len(lines) : lines[i] \in c.lines

\* the lines each handler of the loop accepts
PlayerLines == {l \in Lines : IsPlayer(l)}
UhtmlLines == {l \in Lines : IsUhtml(l)}
ShowteamLines == {l \in Lines : IsShowteam(l)}
SwitchLines == {l \in Lines : IsSwitch(l)}
DetailschangeLines == {l \in Lines : IsDetailschange(l)}
TerastallizeLines == {l \in Lines : IsTerastallize(l)}
WinEventLines == {l \in Lines : IsWin(l)}

IgnoredLines == {l \in Lines : NoHandler(l)}

(* ------------------------- Replay State Tracker ------------------------ *)
VARIABLES
    p1_username, p2_username,       \* optional string
    p1_team, p2_team,               \* sequence of TeamPokemon records
    p1_leads, p2_leads,             \* sequence of species
    p1_back, p2_back,               \* sequence of species
    p1_tera, p2_tera,               \* optional string
    winner,                         \* optional 1 or 2
    best_of_3_id,                   \* optional string
    best_of_3_game_number,          \* optional int
    nickname_to_species,            \* player -> (nickname -> species)
    log,                            \* the lines consumed so far, in order
    pc,                             \* "reading" inside the loop, "done" after return
    result,                         \* optional returned dict
    showteam_raw,                   \* the roster payload handed to the decoder
    showteam_team,                  \* optional decoded roster
    target_player,                  \* optional string: whose games are analysed
    required_opponent_pokemon,      \* optional list of species for the conditional metric
    paths,                          \* the record files loaded so far, in order
    games,                          \* sequence of analyzer GameRecords
    metrics                         \* optional dict returned by analyze_winrates

tracker == <<p1_username, p2_username, p1_team, p2_team, p1_leads, p2_leads,
             p1_back, p2_back, p1_tera, p2_tera, winner, best_of_3_id,
             best_of_3_game_number, nickname_to_species>>

vars == <<p1_username, p2_username, p1_team, p2_team, p1_leads, p2_leads,
          p1_back, p2_back, p1_tera, p2_tera, winner, best_of_3_id,
          best_of_3_game_number, nickname_to_species, log, pc, result,
          showteam_raw, showteam_team, target_player, required_opponent_pokemon,
          paths, games, metrics>>

\* the state of the roster decoder run on its own, and of the win-rate analyzer
decoder == <<showteam_raw, showteam_team>>
analyzer == <<target_player, required_opponent_pokemon, paths, games, metrics>>

DecoderIdle == showteam_raw = <<>> /\ showteam_team = None
AnalyzerIdle ==
    /\ target_player = None /\ required_opponent_pokemon = None
    /\ paths = <<>> /\ games = <<>> /\ metrics = None

EmptyDict == [k \in {} |-> <<>>]

\* the locals of parse_replay before the first line
Fresh ==
    /\ p1_username = None /\ p2_username = None
    /\ p1_team = <<>> /\ p2_team = <<>>
    /\ p1_leads = <<>> /\ p2_leads = <<>>
    /\ p1_back = <<>> /\ p2_back = <<>>
    /\ p1_tera = None /\ p2_tera = None
    /\ winner = None
    /\ best_of_3_id = None
    /\ best_of_3_game_number = None
    /\ nickname_to_species = [p \in {P1, P2} |-> EmptyDict]
    /\ log = <<>>
    /\ result = None

Init ==
    /\ Fresh
    /\ pc = "reading"
    /\ DecoderIdle
    /\ AnalyzerIdle

\* the loop takes the next line of the transcript
Reads(line) ==
    /\ pc = "reading"
    /\ Feeds(log, line)
    /\ log' = Append(log, line)
    /\ UNCHANGED <<pc, result, decoder, analyzer>>

\* nickname_to_species[player][nickname] = species, when the guard allows it
Bind_FirstWriteWins(dict, player, nickname, species) ==
    IF nickname # None /\ nickname[1] # <<>> /\ player \in DOMAIN dict
    THEN [dict EXCEPT ![player] =
            [k \in (DOMAIN dict[player]) \cup {nickname[1]} |->
                IF k \in DOMAIN dict[player] THEN dict[player][k] ELSE species]]
    ELSE dict

Bind(dict, player, nickname, species) ==
    IF nickname # None /\ nickname[1] # <<>> /\ player \in DOMAIN dict
    THEN [dict EXCEPT ![player] =
            [k \in (DOMAIN dict[player]) \cup {nickname[1]} |->
                IF k = nickname[1] THEN species ELSE dict[player][k]]]
    ELSE dict

\* the lead / bench classification of one side
LeadsAfter_ThreeLeads(leads, back, species) ==
    IF ~InList(species, leads) /\ Len(leads) <= 2
    THEN Append(leads, species)
    ELSE leads

LeadsAfter(leads, back, species) ==
    IF ~InList(species, leads) /\ Len(leads) < 2
    THEN Append(leads, species)
    ELSE leads

BackAfter_LeadsBenched(leads, back, species) ==
    IF ~InList(species, leads) /\ Len(leads) < 2
    THEN back
    ELSE IF ~InList(species, back)
         THEN Append(back, species)
         ELSE back

BackAfter(leads, back, species) ==
    IF ~InList(species, leads) /\ Len(leads) < 2
    THEN back
    ELSE IF ~InList(species, leads) /\ ~InList(species, back)
         THEN Append(back, species)
         ELSE back

Resolve_AnySide(dict, player, nickname) ==
    LET key == IF nickname # None /\ nickname[1] # <<>> THEN nickname[1] ELSE <<>>
        sides == {p \in DOMAIN dict : key \in DOMAIN dict[p]}
    IN  IF player \in sides THEN Some(dict[player][key])
        ELSE IF sides # {} THEN Some(dict[CHOOSE p \in sides : TRUE][key])
        ELSE nickname

Resolve_NicknameLiteral(dict, player, nickname) == nickname

\* nickname_to_species.get(player, {}).get(nickname or "", nickname)
Resolve(dict, player, nickname) ==
    LET inner == IF player \in DOMAIN dict THEN dict[player] ELSE EmptyDict
        key == IF nickname # None /\ nickname[1] # <<>> THEN nickname[1] ELSE <<>>
    IN  IF key \in DOMAIN inner THEN Some(inner[key]) ELSE nickname

WinnerAfter_AnyName(old, u1, u2, winner_name) ==
    IF u1 # None /\ u1[1] # <<>> THEN Some(1)
    ELSE IF u2 # None /\ u2[1] # <<>> THEN Some(2)
    ELSE old

WinnerAfter_ResetsUnmatched(old, u1, u2, winner_name) ==
    IF u1 # None /\ u1[1] # <<>> /\ winner_name = u1[1] THEN Some(1)
    ELSE IF u2 # None /\ u2[1] # <<>> /\ winner_name = u2[1] THEN Some(2)
    ELSE None

\* which slot a declared winner name designates
WinnerAfter(old, u1, u2, winner_name) ==
    IF u1 # None /\ u1[1] # <<>> /\ winner_name = u1[1] THEN Some(1)
    ELSE IF u2 # None /\ u2[1] # <<>> /\ winner_name = u2[1] THEN Some(2)
    ELSE old

Player_EmptyOverwrites(line) ==
    /\ Reads(line)
    /\ IsPlayer(line)
    /\ LET slot == Strip(Parts(line)[3])
           username == Strip(Parts(line)[4])
       IN  /\ p1_username' = IF slot = P1 THEN OrNone(username) ELSE p1_username
           /\ p2_username' = IF slot = P2 THEN OrNone(username) ELSE p2_username
    /\ UNCHANGED <<p1_team, p2_team, p1_leads, p2_leads, p1_back, p2_back,
                   p1_tera, p2_tera, winner, best_of_3_id,
                   best_of_3_game_number, nickname_to_species>>

Player(line) ==
    /\ Reads(line)
    /\ IsPlayer(line)
    /\ LET slot == Strip(Parts(line)[3])
           username == Strip(Parts(line)[4])
       IN  /\ p1_username' = IF username # <<>> /\ slot = P1
                             THEN Some(username) ELSE p1_username
           /\ p2_username' = IF username # <<>> /\ slot = P2
                             THEN Some(username) ELSE p2_username
    /\ UNCHANGED <<p1_team, p2_team, p1_leads, p2_leads, p1_back, p2_back,
                   p1_tera, p2_tera, winner, best_of_3_id,
                   best_of_3_game_number, nickname_to_species>>

Uhtml(line) ==
    /\ Reads(line)
    /\ IsUhtml(line)
    /\ LET block_id == Strip(Parts(line)[3])
           html == Join(SubSeq(Parts(line), 4, Len(Parts(line))), "|")
       IN  /\ best_of_3_game_number' =
                 IF block_id = <<"bestof">> /\ game_match(html) # None
                 THEN Some(ToInt(game_match(html)[1]))
                 ELSE best_of_3_game_number
           /\ best_of_3_id' =
                 IF block_id = <<"bestof">> /\ id_match(html) # None
                 THEN id_match(html)
                 ELSE best_of_3_id
    /\ UNCHANGED <<p1_username, p2_username, p1_team, p2_team, p1_leads,
                   p2_leads, p1_back, p2_back, p1_tera, p2_tera, winner,
                   nickname_to_species>>

Showteam(line) ==
    /\ Reads(line)
    /\ IsShowteam(line)
    /\ LET slot == Strip(Parts(line)[3])
           payload == Join(SubSeq(Parts(line), 4, Len(Parts(line))), "|")
           parsed_team == parse_showteam(payload)
       IN  /\ p1_team' = IF slot = P1 THEN parsed_team ELSE p1_team
           /\ p2_team' = IF slot = P2 THEN parsed_team ELSE p2_team
    /\ UNCHANGED <<p1_username, p2_username, p1_leads, p2_leads, p1_back,
                   p2_back, p1_tera, p2_tera, winner, best_of_3_id,
                   best_of_3_game_number, nickname_to_species>>

Switch(line) ==
    /\ Reads(line)
    /\ IsSwitch(line)
    /\ LET slot == Strip(Parts(line)[3])
           details == Strip(Parts(line)[4])
           species == normalize_species(extract_species_from_details(details))
           player == extract_player(slot)
           nickname == extract_nickname(slot)
       IN  /\ nickname_to_species' =
                 Bind(nickname_to_species, player, nickname, species)
           /\ p1_leads' = IF player = P1
                          THEN LeadsAfter(p1_leads, p1_back, species) ELSE p1_leads
           /\ p1_back' = IF player = P1
                         THEN BackAfter(p1_leads, p1_back, species) ELSE p1_back
           /\ p2_leads' = IF player # P1 /\ player = P2
                          THEN LeadsAfter(p2_leads, p2_back, species) ELSE p2_leads
           /\ p2_back' = IF player # P1 /\ player = P2
                         THEN BackAfter(p2_leads, p2_back, species) ELSE p2_back
    /\ UNCHANGED <<p1_username, p2_username, p1_team, p2_team, p1_tera,
                   p2_tera, winner, best_of_3_id, best_of_3_game_number>>

Detailschange_Classifies(line) ==
    /\ Reads(line)
    /\ IsDetailschange(line)
    /\ LET slot == Strip(Parts(line)[3])
           details == Strip(Parts(line)[4])
           species == normalize_species(extract_species_from_details(details))
           player == extract_player(slot)
           nickname == extract_nickname(slot)
       IN  /\ nickname_to_species' =
                 Bind(nickname_to_species, player, nickname, species)
           /\ p1_leads' = IF player = P1
                          THEN LeadsAfter(p1_leads, p1_back, species) ELSE p1_leads
           /\ p1_back' = IF player = P1
                         THEN BackAfter(p1_leads, p1_back, species) ELSE p1_back
           /\ p2_leads' = IF player # P1 /\ player = P2
                          THEN LeadsAfter(p2_leads, p2_back, species) ELSE p2_leads
           /\ p2_back' = IF player # P1 /\ player = P2
                         THEN BackAfter(p2_leads, p2_back, species) ELSE p2_back
    /\ UNCHANGED <<p1_username, p2_username, p1_team, p2_team, p1_tera,
                   p2_tera, winner, best_of_3_id, best_of_3_game_number>>

Detailschange(line) ==
    /\ Reads(line)
    /\ IsDetailschange(line)
    /\ LET slot == Strip(Parts(line)[3])
           details == Strip(Parts(line)[4])
           species == normalize_species(extract_species_from_details(details))
           player == extract_player(slot)
           nickname == extract_nickname(slot)
       IN  nickname_to_species' =
              Bind(nickname_to_species, player, nickname, species)
    /\ UNCHANGED <<p1_username, p2_username, p1_team, p2_team, p1_leads,
                   p2_leads, p1_back, p2_back, p1_tera, p2_tera, winner,
                   best_of_3_id, best_of_3_game_number>>

Terastallize(line) ==
    /\ Reads(line)
    /\ IsTerastallize(line)
    /\ LET slot == Strip(Parts(line)[3])
           nickname == extract_nickname(slot)
           player == extract_player(slot)
           species == Resolve(nickname_to_species, player, nickname)
       IN  /\ p1_tera' = IF player = P1 THEN species ELSE p1_tera
           /\ p2_tera' = IF player # P1 /\ player = P2 THEN species ELSE p2_tera
    /\ UNCHANGED <<p1_username, p2_username, p1_team, p2_team, p1_leads,
                   p2_leads, p1_back, p2_back, winner, best_of_3_id,
                   best_of_3_game_number, nickname_to_species>>

Win(line) ==
    /\ Reads(line)
    /\ IsWin(line)
    /\ LET winner_name == Strip(Parts(line)[3])
       IN  winner' = WinnerAfter(winner, p1_username, p2_username, winner_name)
    /\ UNCHANGED <<p1_username, p2_username, p1_team, p2_team, p1_leads,
                   p2_leads, p1_back, p2_back, p1_tera, p2_tera, best_of_3_id,
                   best_of_3_game_number, nickname_to_species>>

\* a line the loop passes over: blank, not a protocol line, no handler
Ignore(line) ==
    /\ Reads(line)
    /\ NoHandler(line)
    /\ UNCHANGED tracker

GameRecord_SidesSwapped ==
    [best_of_3_id          |-> best_of_3_id,
     best_of_3_game_number |-> best_of_3_game_number,
     player1 |-> [username             |-> p1_username,
                  team                 |-> p1_team,
                  lead_pokemon         |-> p2_leads,
                  back_pokemon         |-> p2_back,
                  terastalized_pokemon |-> p1_tera],
     player2 |-> [username             |-> p2_username,
                  team                 |-> p2_team,
                  lead_pokemon         |-> p1_leads,
                  back_pokemon         |-> p1_back,
                  terastalized_pokemon |-> p2_tera],
     winning_player |-> winner]

GameRecord ==
    [best_of_3_id          |-> best_of_3_id,
     best_of_3_game_number |-> best_of_3_game_number,
     player1 |-> [username             |-> p1_username,
                  team                 |-> p1_team,
                  lead_pokemon         |-> p1_leads,
                  back_pokemon         |-> p1_back,
                  terastalized_pokemon |-> p1_tera],
     player2 |-> [username             |-> p2_username,
                  team                 |-> p2_team,
                  lead_pokemon         |-> p2_leads,
                  back_pokemon         |-> p2_back,
                  terastalized_pokemon |-> p2_tera],
     winning_player |-> winner]

\* end of input: the record is returned
Return ==
    /\ pc = "reading"
    /\ pc' = "done"
    /\ result' = Some(GameRecord)
    /\ UNCHANGED <<tracker, log, decoder, analyzer>>

Next ==
    \/ \E line \in PlayerLines : Player(line)
    \/ \E line \in UhtmlLines : Uhtml(line)
    \/ \E line \in ShowteamLines : Showteam(line)
    \/ \E line \in SwitchLines : Switch(line)
    \/ \E line \in DetailschangeLines : Detailschange(line)
    \/ \E line \in TerastallizeLines : Terastallize(line)
    \/ \E line \in WinEventLines : Win(line)
    \/ \E line \in IgnoredLines : Ignore(line)
    \/ Return

Spec == Init /\ [][Next]_vars

(* ------------------- what a line of the transcript says ---------------- *)
SlotOf(line) == Strip(Parts(line)[3])

PlayerOf(line) == extract_player(SlotOf(line))

NicknameOf(line) == extract_nickname(SlotOf(line))

SpeciesOf(line) ==
    normalize_species(extract_species_from_details(Strip(Parts(line)[4])))

NameOf(line) == Strip(Parts(line)[IF IsPlayer(line) THEN 4 ELSE 3])

KindOf(line) ==
    IF IsPlayer(line) THEN "player"
    ELSE IF IsUhtml(line) THEN "uhtml"
    ELSE IF IsShowteam(line) THEN "showteam"
    ELSE IF IsSwitch(line) THEN "switch"
    ELSE IF IsDetailschange(line) THEN "detailschange"
    ELSE IF IsTerastallize(line) THEN "-terastallize"
    ELSE IF IsWin(line) THEN "win"
    ELSE "none"

\* the decoded fields of every line of the feed, by handler
LineInfo ==
    [l \in Lines |->
        [kind     |-> KindOf(l),
         player   |-> IF KindOf(l) \in {"switch", "detailschange", "-terastallize"}
                      THEN PlayerOf(l)
                      ELSE IF KindOf(l) \in {"player", "showteam"} THEN SlotOf(l)
                      ELSE <<>>,
         nickname |-> IF KindOf(l) \in {"switch", "detailschange", "-terastallize"}
                      THEN NicknameOf(l) ELSE None,
         species  |-> IF KindOf(l) \in {"switch", "detailschange"}
                      THEN SpeciesOf(l) ELSE <<>>,
         name     |-> IF KindOf(l) \in {"player", "win"} THEN NameOf(l) ELSE <<>>]]

\* a step of the loop consumed one line
IsStep == Len(log') = Len(log) + 1

StepLine == log'[Len(log')]

StepInfo == LineInfo[StepLine]

NoDup(list) == \A i, j \in 1..Len(list) : list[i] = list[j] => i = j

IsPrefix(a, b) == Len(a) <= Len(b) /\ SubSeq(b, 1, Len(a)) = a

RECURSIVE SwitchSpecies(_, _)
\* the species of the switch events of one player, in transcript order
SwitchSpecies(lines, p) ==
    IF lines = <<>> THEN <<>>
    ELSE IF LineInfo[Head(lines)].kind = "switch" /\ LineInfo[Head(lines)].player = p
         THEN <<LineInfo[Head(lines)].species>> \o SwitchSpecies(Tail(lines), p)
         ELSE SwitchSpecies(Tail(lines), p)

(* ------------------------------- C1 ------------------------------------ *)
SideShape(leads, back) ==
    /\ Len(leads) <= 2
    /\ NoDup(leads)
    /\ NoDup(back)
    /\ \A i \in 1..Len(leads) : ~InList(leads[i], back)

\* C1: on each side, at every point of the parse, there are at most 2 leads,
\* no species is listed twice among the leads or twice on the bench, and no
\* species is both a lead and on the bench.
C1_LeadsBenchShape ==
    /\ SideShape(p1_leads, p1_back)
    /\ SideShape(p2_leads, p2_back)

\* both leads taken, one species benched, and a lead came in again (as its
\* "-Tera" display form) after that
C1_Witness ==
    /\ log = <<sw1A, sw1B, sw1C, sw1AT>>
    /\ p1_leads = <<FM, INC>>
    /\ p1_back = <<RIL>>

(* ------------------------------- C2 ------------------------------------ *)
SwitchRule(leads, back, leads2, back2, s) ==
    LET asLead == ~InList(s, leads) /\ Len(leads) < 2
        asBench == ~asLead /\ ~InList(s, leads) /\ ~InList(s, back)
    IN  /\ asLead => leads2 = Append(leads, s) /\ back2 = back
        /\ asBench => leads2 = leads /\ back2 = Append(back, s)
        /\ ~asLead /\ ~asBench => leads2 = leads /\ back2 = back

C2_Step ==
    /\ IsStep /\ StepInfo.kind = "switch" /\ StepInfo.player = P1
          => SwitchRule(p1_leads, p1_back, p1_leads', p1_back', StepInfo.species)
    /\ IsStep /\ StepInfo.kind = "switch" /\ StepInfo.player = P2
          => SwitchRule(p2_leads, p2_back, p2_leads', p2_back', StepInfo.species)
    /\ IsPrefix(p1_leads, p1_leads') /\ IsPrefix(p1_back, p1_back')
    /\ IsPrefix(p2_leads, p2_leads') /\ IsPrefix(p2_back, p2_back')

\* the switch sequence [A, B, A, C] (A, B, C distinct) gives [A, B] and [C]
ABAC(seq, leads, back) ==
    (/\ Len(seq) = 4
     /\ seq[1] = seq[3] /\ seq[1] # seq[2]
     /\ seq[4] # seq[1] /\ seq[4] # seq[2])
        => (leads = <<seq[1], seq[2]>> /\ back = <<seq[4]>>)

C2_Example ==
    /\ ABAC(SwitchSpecies(log, P1), p1_leads, p1_back)
    /\ ABAC(SwitchSpecies(log, P2), p2_leads, p2_back)

\* C2: a switch of player P with species s appends s to P's leads exactly
\* when s is not a lead and P has fewer than 2 leads, otherwise appends s to
\* P's bench exactly when s is in neither list, otherwise changes neither;
\* every step leaves each list a prefix of its new value; and the switch
\* sequence [A, B, A, C] of one player gives leads [A, B] and bench [C].
C2_SwitchClassifies == [][C2_Step]_vars /\ []C2_Example

\* the switch sequence [A, B, A, C] of player 1 has been processed
C2_Witness ==
    /\ SwitchSpecies(log, P1) = <<FM, INC, FM, RIL>>
    /\ p1_leads = <<FM, INC>>
    /\ p1_back = <<RIL>>

(* ------------------------------- C3 ------------------------------------ *)
TeraRule(dict, p, nickname, tera2) ==
    tera2 = IF nickname # None /\ nickname[1] \in DOMAIN dict[p]
            THEN Some(dict[p][nickname[1]])
            ELSE nickname

C3_Step ==
    IsStep /\ StepInfo.kind = "-terastallize" =>
        /\ StepInfo.player = P1 =>
              TeraRule(nickname_to_species, P1, StepInfo.nickname, p1_tera')
        /\ StepInfo.player = P2 =>
              TeraRule(nickname_to_species, P2, StepInfo.nickname, p2_tera')

\* C3: a -terastallize event of player P sets P's terastallized species to
\* the species bound to the slot's nickname in P's bindings, and to the raw
\* nickname if that nickname is unbound (to nothing when the slot names no
\* nickname), whatever was recorded before.
C3_TeraResolves == [][C3_Step]_vars

\* a nickname bound by switch and rebound by detailschange resolves to the
\* bound species, replacing the raw nickname an earlier event had recorded
C3_Witness ==
    /\ log = <<sw1A, dc1C, te1u, te1>>
    /\ p1_tera = Some(RIL)

(* ------------------------------- C4 ------------------------------------ *)
TeraEvents(p) ==
    {i \in 1..Len(log) :
        LineInfo[log[i]].kind = "-terastallize" /\ LineInfo[log[i]].player = p}

BindingsBefore(t, p, nickname) ==
    {j \in 1..(t - 1) :
        /\ LineInfo[log[j]].kind \in {"switch", "detailschange"}
        /\ LineInfo[log[j]].player = p
        /\ nickname # None /\ nickname[1] # <<>>
        /\ LineInfo[log[j]].nickname = nickname}

\* what the transcript order says player p's terastallized species is
TeraByOrder(p) ==
    IF TeraEvents(p) = {} THEN None
    ELSE LET t == Max(TeraEvents(p))
             nickname == LineInfo[log[t]].nickname
             B == BindingsBefore(t, p, nickname)
         IN  IF B = {} THEN nickname ELSE Some(LineInfo[log[Max(B)]].species)

\* C4: the terastallized species on record is the species of the most recent
\* switch/detailschange binding of that (player, nickname) that precedes the
\* player's latest -terastallize event; a binding made after that event
\* does not change it.
C4_TeraFollowsOrder ==
    /\ p1_tera = TeraByOrder(P1)
    /\ p2_tera = TeraByOrder(P2)

\* bound, rebound, terastallized, then rebound again: the record keeps the
\* species of the binding in force at the -terastallize event
C4_Witness ==
    /\ log = <<sw1A, dc1C, te1, sw1A>>
    /\ p1_tera = Some(RIL)
    /\ nickname_to_species[P1][Flutty] = FM

(* ------------------------------- C5 ------------------------------------ *)
WinEvents == {i \in 1..Len(log) : LineInfo[log[i]].kind = "win"}

\* the username the transcript had bound to a slot before its i-th line
UsernameBefore(i, slot) ==
    LET S == {j \in 1..(i - 1) :
                /\ LineInfo[log[j]].kind = "player"
                /\ LineInfo[log[j]].player = slot
                /\ LineInfo[log[j]].name # <<>>}
    IN  IF S = {} THEN None ELSE Some(LineInfo[log[Max(S)]].name)

WinJustified(w) ==
    /\ w = Some(1) =>
          \E i \in WinEvents : UsernameBefore(i, P1) = Some(LineInfo[log[i]].name)
    /\ w = Some(2) =>
          \E i \in WinEvents : UsernameBefore(i, P2) = Some(LineInfo[log[i]].name)
    /\ WinEvents = {} => w = None

\* C5: winning_player is k, during the parse and in the returned record, only
\* if some processed win event named exactly the username recorded for slot k
\* before it; without a win event winning_player is undefined.
C5_WinnerJustified ==
    /\ WinJustified(winner)
    /\ result # None => WinJustified(result[1].winning_player)

\* player 1 won as Alice and was renamed afterwards
C5_Witness ==
    /\ pc = "done"
    /\ log = <<pl1A5, winA, pl1B5>>
    /\ result[1].winning_player = Some(1)
    /\ result[1].player1.username = Some(Bob)

(* ------------------------------- C6 ------------------------------------ *)
Matches(username, name) == username # None /\ username[1] = name

C6_OriginalStep ==
    IsStep /\ StepInfo.kind = "win" =>
        /\ (~Matches(p1_username, StepInfo.name) /\ ~Matches(p2_username, StepInfo.name))
              => winner' = None
        /\ Matches(p1_username, StepInfo.name) => winner' = Some(1)
        /\ (~Matches(p1_username, StepInfo.name) /\ Matches(p2_username, StepInfo.name))
              => winner' = Some(2)

\* C6 as claimed: after a win event naming neither username, winning_player
\* is undefined; a win event naming a username sets the matching slot.
C6_Original == [][C6_OriginalStep]_vars

C6_AmendedStep ==
    IsStep /\ StepInfo.kind = "win" =>
        /\ (~Matches(p1_username, StepInfo.name) /\ ~Matches(p2_username, StepInfo.name))
              => winner' = winner
        /\ Matches(p1_username, StepInfo.name) => winner' = Some(1)
        /\ (~Matches(p1_username, StepInfo.name) /\ Matches(p2_username, StepInfo.name))
              => winner' = Some(2)

\* C6: a win event naming neither bound username leaves winning_player as it
\* was (undefined unless an earlier win event matched); a win event naming a
\* bound username sets winning_player to that slot (slot 1 if both slots
\* carry the name).
C6_WinUnmatchedKeeps == [][C6_AmendedStep]_vars

\* a matching win event followed by one that names nobody
C6_Witness ==
    /\ log = <<pl1A5, winA, winC>>
    /\ winner = Some(1)

(* ------------------------------- C7 ------------------------------------ *)
\* the lines that read |player|<slot>|<name>..., split into at least n fields
PlayerText(slot, name, n) ==
    {l \in Lines :
        /\ ~Skipped(l)
        /\ Event(l) = <<"player">>
        /\ Len(Parts(l)) >= n
        /\ Len(Parts(l)) >= 4
        /\ Strip(Parts(l)[3]) = slot
        /\ Strip(Parts(l)[4]) = name}

AliceAsWritten == PlayerText(P1, Alice, 4)
BobAsWritten == PlayerText(P2, Bob, 4)
AliceFiveFields == PlayerText(P1, Alice, 5)
BobFiveFields == PlayerText(P2, Bob, 5)

\* player p1 Alice, player p2 Bob, switch events with Flutter Mane the first
\* species of p1, win Alice
EndToEnd(aliceLines, bobLines) ==
    /\ Len(log) >= 4
    /\ log[1] \in aliceLines
    /\ log[2] \in bobLines
    /\ \A i \in 3..(Len(log) - 1) : LineInfo[log[i]].kind = "switch"
    /\ LineInfo[log[Len(log)]].kind = "win"
    /\ LineInfo[log[Len(log)]].name = Alice
    /\ SwitchSpecies(log, P1) # <<>>
    /\ SwitchSpecies(log, P1)[1] = FM

\* C7 as claimed: the transcript player|p1|Alice, player|p2|Bob, switch
\* events with Flutter Mane first for p1, win|Alice returns username Alice,
\* winning_player 1 and lead_pokemon [Flutter Mane].
C7_Original ==
    (pc = "done" /\ EndToEnd(AliceAsWritten, BobAsWritten)) =>
        /\ result[1].player1.username = Some(Alice)
        /\ result[1].winning_player = Some(1)
        /\ result[1].player1.lead_pokemon = <<FM>>

\* C7: when the two player lines split into at least 5 fields, the returned
\* record has player1.username Alice, winning_player 1 and a lead_pokemon
\* list that starts with Flutter Mane, and is exactly [Flutter Mane] when p1
\* sends out no other species; when the p1 player line has only the 4 fields
\* of |player|p1|Alice, username and winning_player stay undefined.
C7_EndToEnd ==
    /\ (pc = "done" /\ EndToEnd(AliceFiveFields, BobFiveFields)) =>
          /\ result[1].player1.username = Some(Alice)
          /\ result[1].player2.username = Some(Bob)
          /\ result[1].winning_player = Some(1)
          /\ result[1].player1.lead_pokemon # <<>>
          /\ result[1].player1.lead_pokemon[1] = FM
          /\ (Len(result[1].player1.lead_pokemon) = 1) <=>
                (\A i \in 1..Len(SwitchSpecies(log, P1)) :
                    SwitchSpecies(log, P1)[i] = FM)
    /\ (pc = "done" /\ EndToEnd(AliceAsWritten \ AliceFiveFields, BobAsWritten)) =>
          /\ result[1].player1.username = None
          /\ result[1].winning_player = None
          /\ result[1].player1.lead_pokemon # <<>>
          /\ result[1].player1.lead_pokemon[1] = FM

\* the end-to-end transcript with five-field player lines has been returned
C7_Witness ==
    /\ pc = "done"
    /\ log = <<pl1A5, pl2B5, sw1A, winA>>
    /\ result[1].winning_player = Some(1)
    /\ result[1].player1.lead_pokemon = <<FM>>

(* ------------------------------- C8 ------------------------------------ *)
MinFields ==
    [tag \in {"player", "uhtml", "showteam", "switch", "detailschange",
              "-terastallize", "win"} |->
        IF tag = "player" THEN 5
        ELSE IF tag \in {"-terastallize", "win"} THEN 3
        ELSE 4]

Skippable(line) ==
    \/ Strip(line) = <<>>
    \/ ~StartsWith(Strip(line), "|")
    \/ Event(line) \notin {<<tag>> : tag \in DOMAIN MinFields}
    \/ Len(Parts(line)) < MinFields[Event(line)[1]]

SkippableLines == {l \in Lines : Skippable(l)}

C8_Step ==
    IsStep /\ StepLine \in SkippableLines =>
        /\ UNCHANGED <<p1_username, p2_username, p1_team, p2_team,
                       nickname_to_species, p1_leads, p2_leads, p1_back,
                       p2_back, p1_tera, p2_tera, best_of_3_id,
                       best_of_3_game_number, winner>>
        /\ pc' = "reading"

\* C8: a line that is blank after trimming, does not start with "|", has an
\* unrecognized tag or has fewer fields than its tag needs changes no
\* component of the tracker state, and the loop goes on.
C8_SkippableNoEffect == [][C8_Step]_vars

\* a chat line was passed over after a username, a lead and a winner were set
C8_Witness ==
    /\ log = <<pl1A5, sw1A, winA, chat>>
    /\ p1_username = Some(Alice)
    /\ p1_leads = <<FM>>
    /\ winner = Some(1)

(* ------------------------------- C9 ------------------------------------ *)
SameBinding(p, n) ==
    /\ n \in DOMAIN nickname_to_species[p] <=> n \in DOMAIN nickname_to_species'[p]
    /\ n \in DOMAIN nickname_to_species[p] =>
          nickname_to_species'[p][n] = nickname_to_species[p][n]

C9_Step ==
    IsStep /\ StepInfo.kind = "detailschange" =>
        /\ UNCHANGED <<p1_leads, p2_leads, p1_back, p2_back>>
        /\ UNCHANGED <<p1_username, p2_username, p1_team, p2_team, p1_tera,
                       p2_tera, winner, best_of_3_id, best_of_3_game_number>>
        /\ DOMAIN nickname_to_species' = DOMAIN nickname_to_species
        /\ \A p \in DOMAIN nickname_to_species :
              \A n \in (DOMAIN nickname_to_species[p])
                          \cup (DOMAIN nickname_to_species'[p]) :
                  (p # StepInfo.player \/ Some(n) # StepInfo.nickname)
                      => SameBinding(p, n)

\* C9: a detailschange event changes at most the binding of its own (player,
\* nickname); leads and bench of both players and all other tracker state
\* stay as they were.
C9_DetailschangeFrame == [][C9_Step]_vars

\* a form change rebound a nickname while both leads stayed as they were
C9_Witness ==
    /\ log = <<sw1A, sw1B, dc1C>>
    /\ nickname_to_species[P1][Flutty] = RIL
    /\ nickname_to_species[P1][Inci] = INC
    /\ p1_leads = <<FM, INC>>
    /\ p1_back = <<>>

(* ------------------------------- C10 ----------------------------------- *)
C10_Step ==
    IsStep /\ StepInfo.kind = "player" =>
        /\ (StepInfo.player = P1 /\ StepInfo.name # <<>>)
              => p1_username' = Some(StepInfo.name)
        /\ (StepInfo.player = P2 /\ StepInfo.name # <<>>)
              => p2_username' = Some(StepInfo.name)
        /\ StepInfo.name = <<>> => UNCHANGED <<p1_username, p2_username>>

\* C10: a player event with a non-empty username for p1 or p2 sets that
\* slot's username, replacing an earlier one; a player event whose username
\* is empty after trimming leaves the bound username as it was.
C10_PlayerBinds == [][C10_Step]_vars

\* Alice was replaced by Bob, and an empty username then changed nothing
C10_Witness ==
    /\ log = <<pl1A5, pl1B5, pl1E5>>
    /\ p1_username = Some(Bob)


(* ================ the Team Roster Decoder run on its own =============== *)
\* A chunk is written as the list of its fields; its text joins them with "|".
MaxChunks == 3

SixFull ==
    << <<"Flutter Mane">>, <<"Flutty">>, <<"Booster Energy">>, <<"Protosynthesis">>,
       <<"Moonblast", ",", "Protect">>, <<",", ",", "Fairy">> >>
SixBare ==
    << <<" ", "Incineroar", " ">>, <<>>, <<>>, <<"Intimidate">>,
       <<"Fake Out", ",">>, <<",">> >>
FiveFields ==
    << <<"Rillaboom">>, <<>>, <<"Assault Vest">>, <<"Grassy Surge">>, <<"Wood Hammer">> >>
TwelveFields ==
    << <<"Pikachu">>, <<>>, <<"Light Ball">>, <<"Static">>, <<"Volt Tackle">>,
       <<>>, <<>>, <<>>, <<>>, <<>>, <<"50">>, <<",", ",", ",", ",", ",", "Electric">> >>
BlankChunk == << <<" ">> >>

RosterChunks == {SixFull, SixBare, FiveFields, TwelveFields, BlankChunk}

ChunkText(fields) == Join(fields, "|")

\* the payload: the chunks separated by "]", with or without a closing "]"
RawOf(payload) ==
    Join([i \in DOMAIN payload.chunks |-> ChunkText(payload.chunks[i])], "]")
        \o (IF payload.closed THEN <<"]">> ELSE <<>>)

RosterPayloads ==
    {[chunks |-> c, closed |-> b] :
        c \in UNION {[1..n -> RosterChunks] : n \in 0..MaxChunks}, b \in BOOLEAN}

RosterRaws == {RawOf(p) : p \in RosterPayloads}

InitRoster ==
    /\ Fresh
    /\ pc = "decoding"
    /\ showteam_raw \in RosterRaws
    /\ showteam_team = None
    /\ AnalyzerIdle

DecodeShowteam ==
    /\ pc = "decoding"
    /\ showteam_team' = Some(parse_showteam(showteam_raw))
    /\ pc' = "decoded"
    /\ UNCHANGED <<tracker, log, result, showteam_raw, analyzer>>

NextRoster == DecodeShowteam

SpecRoster == InitRoster /\ [][NextRoster]_vars

(* ----------------------------------------------------------------------- *)
\* the payload as it was put together: its chunks, each a list of fields
RawTable == [p \in RosterPayloads |-> RawOf(p)]

PayloadOf(raw) == CHOOSE p \in RosterPayloads : RawTable[p] = raw

\* a chunk yields an entry when its text is not blank and it has 6 fields or more
Yields(fields) == Strip(ChunkText(fields)) # <<>> /\ Len(fields) >= 6

Yielding(chunks) == SelectSeq(chunks, Yields)

NotBlank(s) == s # <<>>

MoveTokens(field) ==
    LET tokens == Split(field, ",")
    IN  SelectSeq([i \in DOMAIN tokens |-> Strip(tokens[i])], NotBlank)

\* what an entry keeps of its chunk: fields 1, 3, 4, 5 and the last one
KeepsFields(entry, fields) ==
    /\ entry.name = Strip(fields[1])
    /\ entry.item = OrNone(Strip(fields[3]))
    /\ entry.ability = OrNone(Strip(fields[4]))
    /\ entry.moves = MoveTokens(fields[5])
    /\ entry.tera_type = OrNone(LStripChar(Strip(fields[Len(fields)]), ","))

EntryValues(entry) ==
    {entry.name} \cup {entry.item[i] : i \in DOMAIN entry.item}
        \cup {entry.ability[i] : i \in DOMAIN entry.ability}
        \cup {entry.moves[i] : i \in DOMAIN entry.moves}
        \cup {entry.tera_type[i] : i \in DOMAIN entry.tera_type}

\* one entry per yielding chunk, in the order of the chunks
OnePerChunk(team, chunks) ==
    /\ Len(team) = Len(Yielding(chunks))
    /\ \A k \in DOMAIN team : team[k].name = Strip(Yielding(chunks)[k][1])

SixFieldChunks(chunks) == \A i \in DOMAIN chunks : Len(chunks[i]) = 6

\* C11 as stated: the decoder yields one entry per non-blank chunk of 6 fields or
\* more, in order, and for a payload of 6-field chunks every non-empty field of a
\* chunk, the second one included, is found in its entry.
C11_Original ==
    showteam_team # None =>
        LET team == showteam_team[1]
            chunks == PayloadOf(showteam_raw).chunks
        IN  /\ OnePerChunk(team, chunks)
            /\ SixFieldChunks(chunks) =>
                   \A k \in DOMAIN team :
                       /\ KeepsFields(team[k], chunks[k])
                       /\ Strip(chunks[k][2]) # <<>> =>
                              Strip(chunks[k][2]) \in EntryValues(team[k])

\* C11 amended: the decoder yields one entry per chunk between "]" marks (the
\* text after the last "]" included) that is not blank and has 6 fields or more,
\* in order; each entry keeps the trimmed fields 1, 3 and 4, the non-empty
\* trimmed tokens of field 5 and the last field without its leading commas,
\* and nothing of field 2.
C11_RosterPerChunk ==
    showteam_team # None =>
        LET team == showteam_team[1]
            kept == Yielding(PayloadOf(showteam_raw).chunks)
        IN  /\ OnePerChunk(team, PayloadOf(showteam_raw).chunks)
            /\ \A k \in DOMAIN team : KeepsFields(team[k], kept[k])

\* a dropped chunk, then two 6-field chunks, the first with a nickname in field 2
C11_Witness ==
    /\ showteam_team # None
    /\ PayloadOf(showteam_raw) = [chunks |-> <<FiveFields, SixFull, SixBare>>, closed |-> FALSE]
    /\ Len(showteam_team[1]) = 2
    /\ showteam_team[1][1].name = <<"Flutter Mane">>
    /\ showteam_team[1][2].tera_type = None

(* ============== the win-rate analyzer (src/winrate_analyzer.py) ======== *)
(* Species names are written character by character here, because the      *)
(* analyzer lower-cases and sorts them.  A winrate is kept in units of      *)
(* 1/10000, which is what round(wins / total, 4) leaves of the quotient.    *)
MaxGames == 5

UpperCase ==
    <<"A", "B", "C", "D", "E", "F", "G", "H", "I", "J", "K", "L", "M",
      "N", "O", "P", "Q", "R", "S", "T", "U", "V", "W", "X", "Y", "Z">>
LowerCase ==
    <<"a", "b", "c", "d", "e", "f", "g", "h", "i", "j", "k", "l", "m",
      "n", "o", "p", "q", "r", "s", "t", "u", "v", "w", "x", "y", "z">>

IndexIn(seq, c) == CHOOSE i \in DOMAIN seq : seq[i] = c

\* str.lower(), one character at a time
LowerChar(c) ==
    IF \E i \in DOMAIN UpperCase : UpperCase[i] = c
    THEN LowerCase[IndexIn(UpperCase, c)]
    ELSE c

Lower(s) == [i \in DOMAIN s |-> LowerChar(s[i])]

\* the code point of a character, for the order sorted() puts strings in
CodePoint(c) ==
    IF \E i \in DOMAIN UpperCase : UpperCase[i] = c THEN 64 + IndexIn(UpperCase, c)
    ELSE IF \E i \in DOMAIN LowerCase : LowerCase[i] = c THEN 96 + IndexIn(LowerCase, c)
    ELSE 32

RECURSIVE StrLess(_, _)
StrLess(a, b) ==
    IF b = <<>> THEN FALSE
    ELSE IF a = <<>> THEN TRUE
    ELSE IF CodePoint(Head(a)) # CodePoint(Head(b))
         THEN CodePoint(Head(a)) < CodePoint(Head(b))
         ELSE StrLess(Tail(a), Tail(b))

RECURSIVE Insert(_, _)
Insert(sorted_list, x) ==
    IF sorted_list = <<>> THEN <<x>>
    ELSE IF StrLess(x, Head(sorted_list)) THEN <<x>> \o sorted_list
    ELSE <<Head(sorted_list)>> \o Insert(Tail(sorted_list), x)

RECURSIVE Sorted(_)
Sorted(list) ==
    IF list = <<>> THEN <<>>
    ELSE Insert(Sorted(SubSeq(list, 1, Len(list) - 1)), list[Len(list)])

Range(seq) == {seq[i] : i \in DOMAIN seq}

\* truthiness of an optional string: neither None nor ""
Truthy(opt) == opt # None /\ opt[1] # <<>>

\* round(wins / total, 4) in units of 1/10000, ties to the even neighbour
Round4(wins, total) ==
    LET q == (10000 * wins) \div total
        r == (10000 * wins) % total
    IN  IF 2 * r < total THEN q
        ELSE IF 2 * r > total THEN q + 1
        ELSE IF q % 2 = 0 THEN q ELSE q + 1

to_rate_OverLosses(wins, total) ==
    [wins |-> wins, losses |-> total - wins, total |-> total,
     winrate |-> IF total - wins # 0 THEN Some(Round4(wins, total - wins)) ELSE None]

to_rate(wins, total) ==
    [wins |-> wins, losses |-> total - wins, total |-> total,
     winrate |-> IF total # 0 THEN Some(Round4(wins, total)) ELSE None]

\* None, or the target's side, the other side and whether the target won
identify_sides_OnlyDecided(game, target) ==
    IF game.winning_player = None THEN None
    ELSE IF game.player1.username = target
    THEN Some(<<game.player1, game.player2, game.winning_player = Some(1)>>)
    ELSE IF game.player2.username = target
    THEN Some(<<game.player2, game.player1, game.winning_player = Some(2)>>)
    ELSE None

identify_sides(game, target) ==
    IF game.player1.username = target
    THEN Some(<<game.player1, game.player2, game.winning_player = Some(1)>>)
    ELSE IF game.player2.username = target
    THEN Some(<<game.player2, game.player1, game.winning_player = Some(2)>>)
    ELSE None

\* the names of the roster entries that have one
TeamNames(team) ==
    LET names == [i \in DOMAIN team |-> team[i].name]
    IN  SelectSeq(names, NotBlank)

\* the analyzer's GameRecord of one file
LoadedRecord(path, payload, sides) ==
    [source_file           |-> path,
     best_of_3_id          |-> payload.best_of_3_id,
     best_of_3_game_number |-> payload.best_of_3_game_number,
     did_win               |-> sides[3],
     self_team             |-> TeamNames(sides[1].team),
     opponent_team         |-> TeamNames(sides[2].team),
     self_leads            |-> sides[1].lead_pokemon,
     self_back             |-> sides[1].back_pokemon,
     self_tera             |-> sides[1].terastalized_pokemon]

CountWins(list) == Cardinality({i \in DOMAIN list : list[i].did_win})

compute_overall_game_winrate(list) == to_rate(CountWins(list), Len(list))

\* match id -> the records of that match, in order; records without an id are left out
group_bo3_KeepsUnset(list) ==
    LET ids == {list[i].best_of_3_id : i \in DOMAIN list}
    IN  [id \in ids |-> SelectSeq(list, LAMBDA g : g.best_of_3_id = id)]

group_bo3(list) ==
    LET ids == {list[i].best_of_3_id : i \in {j \in DOMAIN list : Truthy(list[j].best_of_3_id)}}
    IN  [id \in ids |-> SelectSeq(list, LAMBDA g : g.best_of_3_id = id)]

\* optional BOOLEAN: None when wins and losses are level
bo3_winner_TieIsWin(games_in_match) ==
    LET wins == CountWins(games_in_match)
        losses == Len(games_in_match) - wins
    IN  IF wins >= losses THEN Some(TRUE)
        ELSE IF losses > wins THEN Some(FALSE)
        ELSE None

bo3_winner(games_in_match) ==
    LET wins == CountWins(games_in_match)
        losses == Len(games_in_match) - wins
    IN  IF wins > losses THEN Some(TRUE)
        ELSE IF losses > wins THEN Some(FALSE)
        ELSE None

\* the decided/undecided tally both best-of-3 metrics end with
Bo3Summary(matches) ==
    LET decided == {id \in DOMAIN matches : bo3_winner(matches[id]) # None}
        undecided_count == Cardinality(DOMAIN matches \ decided)
        wins == Cardinality({id \in decided : bo3_winner(matches[id]) = Some(TRUE)})
    IN  [undecided_matches |-> undecided_count] @@ to_rate(wins, Cardinality(decided))

compute_overall_bo3_winrate(list) == Bo3Summary(group_bo3(list))

LowerSet(names) == {Lower(names[i]) : i \in DOMAIN names}

Qualifies_EveryGame(games_in_match, required) ==
    \A i \in DOMAIN games_in_match : required \subseteq LowerSet(games_in_match[i].opponent_team)

Qualifies(games_in_match, required) ==
    \E i \in DOMAIN games_in_match : required \subseteq LowerSet(games_in_match[i].opponent_team)

compute_bo3_vs_opponent_set_winrate(list, required_list) ==
    LET required == LowerSet(required_list)
        grouped == group_bo3(list)
        kept == {id \in DOMAIN grouped : Qualifies(grouped[id], required)}
        filtered == [id \in kept |-> grouped[id]]
    IN  [required_opponent_pokemon |-> required_list,
         matching_best_of_3 |-> Cardinality(kept)] @@ Bo3Summary(filtered)

\* one pass over the records: every key of a record gets a trial, and a win if won
RECURSIVE Tally(_, _)
Tally(counts, trials) ==
    IF trials = <<>> THEN counts
    ELSE LET t == Head(trials)
             old(k) == IF k \in DOMAIN counts THEN counts[k] ELSE [wins |-> 0, total |-> 0]
             new == [k \in DOMAIN counts \cup t.keys |->
                        IF k \in t.keys
                        THEN [wins |-> old(k).wins + (IF t.did_win THEN 1 ELSE 0),
                              total |-> old(k).total + 1]
                        ELSE old(k)]
         IN  Tally(new, Tail(trials))

Rates(counts) == [k \in DOMAIN counts |-> to_rate(counts[k].wins, counts[k].total)]

NoCounts == [k \in {} |-> [wins |-> 0, total |-> 0]]

BroughtKeys_LeadsOnly(game) == Range(game.self_leads)

BroughtKeys(game) == Range(game.self_leads \o game.self_back)

compute_game_winrate_by_brought_pokemon(list) ==
    Rates(Tally(NoCounts, [i \in DOMAIN list |->
                    [keys |-> BroughtKeys(list[i]), did_win |-> list[i].did_win]]))

LeadPairKeys_Unsorted(game) ==
    IF game.self_leads = <<>> THEN {}
    ELSE {Join(game.self_leads, " + ")}

LeadPairKeys(game) ==
    IF game.self_leads = <<>> THEN {}
    ELSE {Join(Sorted(game.self_leads), " + ")}

compute_game_winrate_by_lead_pair(list) ==
    Rates(Tally(NoCounts, [i \in DOMAIN list |->
                    [keys |-> LeadPairKeys(list[i]), did_win |-> list[i].did_win]]))

NoTera == <<"No Terastallization">>

TeraKeys(game) == {IF Truthy(game.self_tera) THEN game.self_tera[1] ELSE NoTera}

compute_game_winrate_by_tera(list) ==
    Rates(Tally(NoCounts, [i \in DOMAIN list |->
                    [keys |-> TeraKeys(list[i]), did_win |-> list[i].did_win]]))

analyze_winrates(list, required_list) ==
    [overall_best_of_3_winrate |-> compute_overall_bo3_winrate(list),
     overall_individual_game_winrate |-> compute_overall_game_winrate(list),
     individual_game_winrate_by_brought_pokemon |-> compute_game_winrate_by_brought_pokemon(list),
     individual_game_winrate_by_lead_pair |-> compute_game_winrate_by_lead_pair(list),
     individual_game_winrate_by_terastalized_pokemon |-> compute_game_winrate_by_tera(list),
     best_of_3_winrate_vs_opponent_pokemon_set |->
        IF required_list # None /\ required_list[1] # <<>>
        THEN Some(compute_bo3_vs_opponent_set_winrate(list, required_list[1]))
        ELSE None]

(* ----------------------- the record files on disk --------------------- *)
Flu == <<"F", "l", "u">>
Inc == <<"I", "n", "c">>
Ril == <<"R", "i", "l">>
Pika == <<"P", "i", "k", "a">>
pika == <<"p", "i", "k", "a">>
PIKA == <<"P", "I", "K", "A">>

Member(name) ==
    [name |-> name, item |-> None, ability |-> None, moves |-> <<>>, tera_type |-> None]

Side(username, names, leads, back, tera) ==
    [username             |-> username,
     team                 |-> [i \in DOMAIN names |-> Member(names[i])],
     lead_pokemon         |-> leads,
     back_pokemon         |-> back,
     terastalized_pokemon |-> tera]

Parsed(id, number, player1, player2, winning_player) ==
    [best_of_3_id          |-> id,
     best_of_3_game_number |-> number,
     player1               |-> player1,
     player2               |-> player2,
     winning_player        |-> winning_player]

M1 == Some(<<"gen9vgc", "-", "1">>)
M2 == Some(<<"gen9vgc", "-", "2">>)
M3 == Some(<<"gen9vgc", "-", "3">>)

\* the files, in the order sorted(glob(...)) lists them
PathList == <<"g1", "g2", "g3", "g4", "g5", "g6", "g7", "g8">>

Files ==
    [path \in Range(PathList) |->
        CASE path = "g1" ->
                Parsed(M1, Some(1),
                       Side(Some(Alice), <<Flu, Inc, Ril, <<>>>>, <<Flu, Inc>>, <<Ril>>, Some(Flu)),
                       Side(Some(Bob), <<Pika, Inc>>, <<Pika, Inc>>, <<>>, None),
                       Some(1))
          [] path = "g2" ->
                Parsed(M1, Some(2),
                       Side(Some(Alice), <<Flu, Inc, Ril>>, <<Inc, Flu>>, <<>>, None),
                       Side(Some(Bob), <<Inc>>, <<Inc>>, <<Pika>>, Some(Inc)),
                       Some(1))
          [] path = "g3" ->
                Parsed(M1, Some(3),
                       Side(Some(Alice), <<>>, <<Flu, Inc>>, <<Ril>>, Some(Ril)),
                       Side(Some(Bob), <<>>, <<Inc, Pika>>, <<>>, None),
                       Some(2))
          [] path = "g4" ->
                Parsed(M2, Some(1),
                       Side(Some(Bob), <<Ril, Inc>>, <<Ril>>, <<Inc>>, None),
                       Side(Some(Alice), <<Flu, Inc, Ril>>, <<Ril>>, <<Flu, Inc>>, Some(Ril)),
                       Some(2))
          [] path = "g5" ->
                Parsed(M2, Some(2),
                       Side(Some(Bob), <<Ril, Inc>>, <<Inc, Ril>>, <<>>, Some(Ril)),
                       Side(Some(Alice), <<Flu, Inc, Ril>>, <<>>, <<>>, Some(<<>>)),
                       None)
          [] path = "g6" ->
                Parsed(None, None,
                       Side(Some(Alice), <<>>, <<Flu>>, <<>>, None),
                       Side(Some(Carol), <<PIKA>>, <<>>, <<>>, None),
                       None)
          [] path = "g7" ->
                Parsed(M3, Some(1),
                       Side(Some(Carol), <<pika, Inc>>, <<pika>>, <<>>, None),
                       Side(Some(Bob), <<Inc>>, <<Inc>>, <<>>, None),
                       Some(2))
          [] path = "g8" ->
                Parsed(M3, Some(2),
                       Side(Some(Bob), <<Pika>>, <<Pika>>, <<>>, Some(Pika)),
                       Side(Some(Bob), <<Inc>>, <<Inc>>, <<>>, None),
                       Some(2))]

TargetPlayers == {Some(Alice), Some(Bob)}

\* --opponent-pokemon: not given, given without names, or given with names
RequiredLists == {None, Some(<<>>), Some(<<pika>>), Some(<<PIKA, Inc>>)}

InitStats ==
    /\ Fresh
    /\ pc = "loading"
    /\ DecoderIdle
    /\ target_player \in TargetPlayers
    /\ required_opponent_pokemon \in RequiredLists
    /\ paths = <<>>
    /\ games = <<>>
    /\ metrics = None

\* one turn of the loop of load_games: the next file is read, and kept if the
\* target played in it
LoadGame(path) ==
    /\ pc = "loading"
    /\ Len(paths) < MaxGames
    /\ IF paths = <<>> THEN TRUE
       ELSE IndexIn(PathList, paths[Len(paths)]) < IndexIn(PathList, path)
    /\ paths' = Append(paths, path)
    /\ LET payload == Files[path]
           sides == identify_sides(payload, target_player)
       IN  games' = IF sides = None THEN games
                    ELSE Append(games, LoadedRecord(path, payload, sides[1]))
    /\ UNCHANGED <<tracker, log, pc, result, decoder, target_player,
                   required_opponent_pokemon, metrics>>

AnalyzeWinrates ==
    /\ pc = "loading"
    /\ metrics' = Some(analyze_winrates(games, required_opponent_pokemon))
    /\ pc' = "analyzed"
    /\ UNCHANGED <<tracker, log, result, decoder, target_player,
                   required_opponent_pokemon, paths, games>>

NextStats ==
    \/ \E path \in Range(PathList) : LoadGame(path)
    \/ AnalyzeWinrates

SpecStats == InitStats /\ [][NextStats]_vars

(* ----------------------------------------------------------------------- *)
\* every bucket of a report: the overall ones, the conditional one, the tables'
Buckets(m) ==
    {m.overall_best_of_3_winrate, m.overall_individual_game_winrate}
        \cup Range(m.best_of_3_winrate_vs_opponent_pokemon_set)
        \cup {m.individual_game_winrate_by_brought_pokemon[k] :
                  k \in DOMAIN m.individual_game_winrate_by_brought_pokemon}
        \cup {m.individual_game_winrate_by_lead_pair[k] :
                  k \in DOMAIN m.individual_game_winrate_by_lead_pair}
        \cup {m.individual_game_winrate_by_terastalized_pokemon[k] :
                  k \in DOMAIN m.individual_game_winrate_by_terastalized_pokemon}

Counts(b) ==
    /\ b.wins + b.losses = b.total
    /\ 0 <= b.wins /\ b.wins <= b.total
    /\ b.winrate = None <=> b.total = 0

Abs(n) == IF n < 0 THEN 0 - n ELSE n

\* C12 as stated: in every bucket wins + losses = total, 0 <= wins <= total, the
\* winrate is undefined exactly when total = 0 and otherwise equals wins/total.
C12_Original ==
    metrics # None =>
        \A b \in Buckets(metrics[1]) :
            /\ Counts(b)
            /\ b.total # 0 => b.winrate[1] * b.total = 10000 * b.wins

\* C12 amended: in every bucket wins + losses = total, 0 <= wins <= total, the
\* winrate is undefined exactly when total = 0 and otherwise is wins/total
\* rounded to 4 decimal places (the multiple of 1/10000 nearest to it).
C12_BucketsConsistent ==
    metrics # None =>
        \A b \in Buckets(metrics[1]) :
            /\ Counts(b)
            /\ b.total # 0 =>
                   /\ 0 <= b.winrate[1] /\ b.winrate[1] <= 10000
                   /\ 2 * Abs(10000 * b.wins - b.winrate[1] * b.total) <= b.total

\* one win in three games (0.3333) next to a best-of-3 bucket without trials
C12_Witness ==
    /\ metrics # None
    /\ metrics[1].overall_individual_game_winrate
           = [wins |-> 1, losses |-> 2, total |-> 3, winrate |-> Some(3333)]
    /\ metrics[1].overall_best_of_3_winrate.total = 0
    /\ metrics[1].overall_best_of_3_winrate.winrate = None
    /\ metrics[1].best_of_3_winrate_vs_opponent_pokemon_set # None
    /\ metrics[1].individual_game_winrate_by_lead_pair # NoCounts

(* ----------------------------------------------------------------------- *)
DidWins(list) == [i \in DOMAIN list |-> list[i].did_win]

Majority(group) ==
    LET won == Cardinality({i \in DOMAIN group : group[i].did_win})
    IN  /\ bo3_winner(group) = Some(TRUE) <=> 2 * won > Len(group)
        /\ bo3_winner(group) = Some(FALSE) <=> 2 * won < Len(group)
        /\ bo3_winner(group) = None <=> 2 * won = Len(group)

\* C13: a match group is a win iff strictly more than half of its records are
\* wins, a loss iff strictly fewer than half are, undecided iff exactly half are;
\* [win, loss] is undecided, [win, win, loss] a win, [loss, loss, win] a loss.
C13_MajorityResolution ==
    \A id \in DOMAIN group_bo3(games) :
        LET group == group_bo3(games)[id]
        IN  /\ group # <<>>
            /\ Majority(group)
            /\ DidWins(group) = <<TRUE, FALSE>> => bo3_winner(group) = None
            /\ DidWins(group) = <<TRUE, TRUE, FALSE>> => bo3_winner(group) = Some(TRUE)
            /\ DidWins(group) = <<FALSE, FALSE, TRUE>> => bo3_winner(group) = Some(FALSE)

\* one match of win, win, loss and one of win, loss in the same report
C13_Witness ==
    /\ metrics # None
    /\ M1 \in DOMAIN group_bo3(games) /\ M2 \in DOMAIN group_bo3(games)
    /\ DidWins(group_bo3(games)[M1]) = <<TRUE, TRUE, FALSE>>
    /\ DidWins(group_bo3(games)[M2]) = <<TRUE, FALSE>>
    /\ metrics[1].overall_best_of_3_winrate.wins = 1
    /\ metrics[1].overall_best_of_3_winrate.undecided_matches = 1

(* ----------------------------------------------------------------------- *)
\* the match ids that records carry
DefinedIds == {games[i].best_of_3_id : i \in DOMAIN games} \ {None}

\* the records of one match, by position in games
RecordsOf(id) == {i \in DOMAIN games : games[i].best_of_3_id = id}

\* C14: a record with an undefined match id is in no match group, a record with a
\* defined match id is in the group of that id and in no other, and in the
\* overall best-of-3 bucket total + undecided_matches is the number of distinct
\* defined match ids.
C14_GroupsPartition ==
    LET grouped == group_bo3(games)
    IN  /\ \A i \in DOMAIN games :
               \A id \in DOMAIN grouped :
                   games[i] \in Range(grouped[id]) <=> games[i].best_of_3_id = id
        /\ \A i \in DOMAIN games :
               IF games[i].best_of_3_id = None
               THEN \A id \in DOMAIN grouped : games[i] \notin Range(grouped[id])
               ELSE games[i].best_of_3_id \in DOMAIN grouped
        /\ metrics # None =>
               LET b == metrics[1].overall_best_of_3_winrate
               IN  b.total + b.undecided_matches = Cardinality(DefinedIds)

\* a record without a match id next to a decided and an undecided match
C14_Witness ==
    /\ metrics # None
    /\ \E i \in DOMAIN games : games[i].best_of_3_id = None
    /\ DefinedIds = {M1, M2}
    /\ metrics[1].overall_best_of_3_winrate.total = 1
    /\ metrics[1].overall_best_of_3_winrate.undecided_matches = 1
    /\ Len(games) = 5

(* ----------------------------------------------------------------------- *)
EqualIgnoringCase(a, b) ==
    /\ Len(a) = Len(b)
    /\ \A k \in DOMAIN a : LowerChar(a[k]) = LowerChar(b[k])

\* some record of the match lists every required species in its opponent roster
MatchQualifies(id, required_list) ==
    \E i \in RecordsOf(id) :
        \A r \in DOMAIN required_list :
            \E n \in DOMAIN games[i].opponent_team :
                EqualIgnoringCase(games[i].opponent_team[n], required_list[r])

WonIn(id) == Cardinality({i \in RecordsOf(id) : games[i].did_win})

\* C15: a match qualifies iff one of its records has an opponent roster that holds,
\* case-insensitively, every required species; matching_best_of_3 counts the
\* qualifying matches, wins, losses and undecided_matches are taken over them
\* alone, and total + undecided_matches = matching_best_of_3.
C15_ConditionalBo3 ==
    (metrics # None /\ metrics[1].best_of_3_winrate_vs_opponent_pokemon_set # None) =>
        LET b == metrics[1].best_of_3_winrate_vs_opponent_pokemon_set[1]
            qualifying == {id \in DefinedIds : MatchQualifies(id, required_opponent_pokemon[1])}
        IN  /\ b.matching_best_of_3 = Cardinality(qualifying)
            /\ b.wins = Cardinality({id \in qualifying : 2 * WonIn(id) > Cardinality(RecordsOf(id))})
            /\ b.losses = Cardinality({id \in qualifying : 2 * WonIn(id) < Cardinality(RecordsOf(id))})
            /\ b.undecided_matches
                   = Cardinality({id \in qualifying : 2 * WonIn(id) = Cardinality(RecordsOf(id))})
            /\ b.total + b.undecided_matches = b.matching_best_of_3

\* two matches, one of them against a roster with Pika, asked for "pika"
C15_Witness ==
    /\ metrics # None
    /\ required_opponent_pokemon = Some(<<pika>>)
    /\ DefinedIds = {M1, M2}
    /\ \E i \in RecordsOf(M1) : Pika \in Range(games[i].opponent_team)
    /\ \E i \in RecordsOf(M1) : Pika \notin Range(games[i].opponent_team)
    /\ \A i \in RecordsOf(M2) : Pika \notin Range(games[i].opponent_team)
    /\ metrics[1].best_of_3_winrate_vs_opponent_pokemon_set # None
    /\ metrics[1].best_of_3_winrate_vs_opponent_pokemon_set[1].matching_best_of_3 = 1

(* ----------------------------------------------------------------------- *)
Species == {Flu, Inc, Ril, Pika, pika, PIKA}

\* the records that brought s, as a lead or on the bench
Brought(s) ==
    {i \in DOMAIN games : s \in Range(games[i].self_leads) \cup Range(games[i].self_back)}

PairKey(leads) ==
    IF Len(leads) = 1 THEN leads[1]
    ELSE IF StrLess(leads[2], leads[1])
         THEN leads[2] \o <<" + ">> \o leads[1]
         ELSE leads[1] \o <<" + ">> \o leads[2]

WithLeads == {i \in DOMAIN games : games[i].self_leads # <<>>}

RECURSIVE SumTotals(_, _)
SumTotals(table, keys) ==
    IF keys = {} THEN 0
    ELSE LET k == CHOOSE x \in keys : TRUE
         IN  table[k].total + SumTotals(table, keys \ {k})

\* C17: in the by-lead-pair table every record with a lead counts once, in the
\* bucket keyed by its sorted leads, so that [A, B] and [B, A] share a bucket;
\* records without leads count nowhere, and the totals of the buckets add up to
\* the number of records with leads.
C17_LeadPairBuckets ==
    metrics # None =>
        LET table == metrics[1].individual_game_winrate_by_lead_pair
        IN  /\ DOMAIN table = {PairKey(games[i].self_leads) : i \in WithLeads}
            /\ \A k \in DOMAIN table :
                   LET same == {i \in WithLeads : PairKey(games[i].self_leads) = k}
                   IN  /\ table[k].total = Cardinality(same)
                       /\ table[k].wins = Cardinality({i \in same : games[i].did_win})
            /\ \A i, j \in WithLeads :
                   Range(games[i].self_leads) = Range(games[j].self_leads) =>
                       PairKey(games[i].self_leads) = PairKey(games[j].self_leads)
            /\ SumTotals(table, DOMAIN table) = Cardinality(WithLeads)

\* leads [Flu, Inc] and [Inc, Flu] in one bucket, next to a record without leads
C17_Witness ==
    /\ metrics # None
    /\ \E i, j \in WithLeads :
           /\ games[i].self_leads = <<Flu, Inc>>
           /\ games[j].self_leads = <<Inc, Flu>>
    /\ \E i \in DOMAIN games : games[i].self_leads = <<>>
    /\ Flu \o <<" + ">> \o Inc \in DOMAIN metrics[1].individual_game_winrate_by_lead_pair
    /\ metrics[1].individual_game_winrate_by_lead_pair[Flu \o <<" + ">> \o Inc].total = 3
    /\ Cardinality(DOMAIN metrics[1].individual_game_winrate_by_lead_pair) = 2
    /\ Cardinality(WithLeads) = 4 /\ Len(games) = 5

(* ----------------------------------------------------------------------- *)
\* the file a record was loaded from
FileOf(i) == Files[games[i].source_file]

OnPlayer1(file) == file.player1.username = target_player
OnPlayer2(file) == file.player2.username = target_player

\* C18 as stated: a record is produced only when the target player matches
\* exactly one side's username, a file whose sides both differ from the target
\* yields no record, and did_win holds iff winning_player names the matched side.
C18_Original ==
    /\ \A i \in DOMAIN games :
           /\ OnPlayer1(FileOf(i)) # OnPlayer2(FileOf(i))
           /\ games[i].did_win <=>
                  \/ OnPlayer1(FileOf(i)) /\ FileOf(i).winning_player = Some(1)
                  \/ OnPlayer2(FileOf(i)) /\ FileOf(i).winning_player = Some(2)
    /\ \A k \in DOMAIN paths :
           (~OnPlayer1(Files[paths[k]]) /\ ~OnPlayer2(Files[paths[k]])) =>
               \A i \in DOMAIN games : games[i].source_file # paths[k]

(* ----------------------------------------------------------------------- *)
\* the target's side of the file won it, going by the file alone
Won(i) ==
    IF OnPlayer1(FileOf(i)) THEN FileOf(i).winning_player = Some(1)
    ELSE FileOf(i).winning_player = Some(2)

WonOf(set) == Cardinality({i \in set : Won(i)})

TeraKey(i) == IF Truthy(games[i].self_tera) THEN games[i].self_tera[1] ELSE NoTera

\* C20: a file without a winner whose target matches a side yields a record with
\* did_win false, and that record counts as a game played and not won in the
\* overall game bucket, in the majority of its match, and in the buckets of its
\* species, its lead pair and its tera species.
C20_UndefinedWinnerIsLoss ==
    /\ \A k \in DOMAIN paths :
           LET file == Files[paths[k]]
           IN  (file.winning_player = None /\ (OnPlayer1(file) \/ OnPlayer2(file))) =>
                   \E i \in DOMAIN games :
                       games[i].source_file = paths[k] /\ ~games[i].did_win
    /\ metrics # None =>
           LET m == metrics[1]
           IN  /\ m.overall_individual_game_winrate.total = Len(games)
               /\ m.overall_individual_game_winrate.wins = WonOf(DOMAIN games)
               /\ m.overall_best_of_3_winrate.wins
                      = Cardinality({id \in DefinedIds :
                            2 * WonOf(RecordsOf(id)) > Cardinality(RecordsOf(id))})
               /\ m.overall_best_of_3_winrate.undecided_matches
                      = Cardinality({id \in DefinedIds :
                            2 * WonOf(RecordsOf(id)) = Cardinality(RecordsOf(id))})
               /\ \A i \in DOMAIN games :
                      /\ \A s \in Range(games[i].self_leads \o games[i].self_back) :
                             LET b == m.individual_game_winrate_by_brought_pokemon[s]
                             IN  b.total = Cardinality(Brought(s)) /\ b.wins = WonOf(Brought(s))
                      /\ games[i].self_leads # <<>> =>
                             LET k == PairKey(games[i].self_leads)
                                 same == {j \in WithLeads : PairKey(games[j].self_leads) = k}
                                 b == m.individual_game_winrate_by_lead_pair[k]
                             IN  b.total = Cardinality(same) /\ b.wins = WonOf(same)
                      /\ LET same == {j \in DOMAIN games : TeraKey(j) = TeraKey(i)}
                             b == m.individual_game_winrate_by_terastalized_pokemon[TeraKey(i)]
                         IN  b.total = Cardinality(same) /\ b.wins = WonOf(same)

\* a match of one win and one game without a winner comes out undecided, and a
\* game without a winner and without a match id is a loss for its lead and species
C20_Witness ==
    /\ metrics # None
    /\ \E i \in RecordsOf(M2) : FileOf(i).winning_player = None
    /\ \E i \in RecordsOf(M2) : games[i].did_win
    /\ Cardinality(RecordsOf(M2)) = 2
    /\ metrics[1].overall_best_of_3_winrate.undecided_matches = 1
    /\ \E i \in RecordsOf(None) :
           /\ FileOf(i).winning_player = None
           /\ games[i].self_leads = <<Flu>>
           /\ metrics[1].individual_game_winrate_by_lead_pair[Flu].losses = 1
           /\ metrics[1].individual_game_winrate_by_brought_pokemon[Flu].losses = 1
           /\ metrics[1].individual_game_winrate_by_terastalized_pokemon[NoTera].losses >= 1
    /\ metrics[1].overall_individual_game_winrate
           = [wins |-> 1, losses |-> 2, total |-> 3, winrate |-> Some(3333)]

(* ------------------------------- C19 ----------------------------------- *)
SlotEvents == {"player", "showteam", "switch", "detailschange", "-terastallize"}

\* the nickname of a step's event has no binding on the side the event names
Unbound(p) ==
    /\ StepInfo.nickname # None
    /\ StepInfo.nickname[1] \notin DOMAIN nickname_to_species[p]

C19_Step ==
    IsStep /\ StepInfo.kind \in SlotEvents =>
        /\ StepInfo.player = P1 =>
               /\ UNCHANGED <<p2_username, p2_team, p2_leads, p2_back, p2_tera>>
               /\ nickname_to_species'[P2] = nickname_to_species[P2]
        /\ StepInfo.player = P2 =>
               /\ UNCHANGED <<p1_username, p1_team, p1_leads, p1_back, p1_tera>>
               /\ nickname_to_species'[P1] = nickname_to_species[P1]
        /\ (StepInfo.kind = "-terastallize" /\ StepInfo.player = P2 /\ Unbound(P2)) =>
               p2_tera' = StepInfo.nickname
        /\ (StepInfo.kind = "-terastallize" /\ StepInfo.player = P1 /\ Unbound(P1)) =>
               p1_tera' = StepInfo.nickname

\* C19: an event addressed to one player's slot (player, showteam, switch,
\* detailschange, -terastallize) leaves the other player's username, roster,
\* nickname bindings, leads, bench and tera as they were, and a -terastallize
\* for a nickname its own side has not bound takes the nickname as written,
\* whatever the other side has bound under that nickname.
C19_SideIsolation == [][C19_Step]_vars

\* player 1 has bound Flutty; player 2's tera of an unbound Flutty stays "Flutty"
C19_Witness ==
    /\ log = <<sw1A, te2>>
    /\ nickname_to_species[P1][Flutty] = FM
    /\ Flutty \notin DOMAIN nickname_to_species[P2]
    /\ p2_tera = Some(Flutty)
    /\ p1_tera = None
    /\ p1_leads = <<FM>>

=============================================================================
